---- MODULE Spec2Model ----
(***************************************************************************)
(* The contact form of the portfolio site (src/sections/Contact/Contact.tsx,*)
(* the custom-API revision): the React state of the component, its event    *)
(* handlers, and the asynchronous steps of submitToApi (fetch, the 15 s     *)
(* abort timer, reading the body), as a state machine.                      *)
(*                                                                          *)
(* The contacts page (ContactsAdminPage) is modelled beside it: the list,   *)
(* loading and error state, the search term and the filtered list that an   *)
(* effect recomputes after each render, and the steps of fetchContacts.     *)
(* The Formspree revision of the form (submitToFormspree) shares the form's *)
(* state and has its own next-state relation.                               *)
(*                                                                          *)
(* Strings are sequences of one-character strings, so that trim(), the      *)
(* e-mail regular expression, template literals and includes() are computed *)
(* and not assumed.  Fixed user-facing messages are written out in full.    *)
(***************************************************************************)
EXTENDS Integers, Sequences, FiniteSets, TLC

VARIABLES
    formData,      \* useState<ContactForm>: [name, email, message]
    isSubmitting,  \* useState(false)
    response,      \* useState<ApiResponse | null>
    errors,        \* useState<{[key: string]: string}>
    calls,         \* the submitToApi invocations not yet over, and their timers
    last,          \* the last event handled (what happened, with its inputs)
    \* ContactsAdminPage
    contacts,          \* useState<Contact[]>([])
    loading,           \* useState(true)
    fetchError,        \* error: useState<string | null>(null)
    searchTerm,        \* useState('')
    filteredContacts,  \* useState<Contact[]>([])
    gets,              \* the fetchContacts invocations not yet over
    pendingEffects     \* the effects React still has to run after the last render

formVars == <<formData, isSubmitting, response, errors, calls>>

adminVars ==
    <<contacts, loading, fetchError, searchTerm, filteredContacts, gets, pendingEffects>>

vars == <<formData, isSubmitting, response, errors, calls, last,
          contacts, loading, fetchError, searchTerm, filteredContacts, gets, pendingEffects>>

----------------------------------------------------------------------------
(* Bounds of the model *)

\* submitToApi invocations whose promise or timer is still alive
MaxCalls == 2
\* longest e-mail text enumerated by the validation specification
MaxEmailLen == 5

----------------------------------------------------------------------------
(* Strings *)

\* the characters \s matches, among those the model types
Whitespace == {" "}

NonWS(c) == c \notin Whitespace

RECURSIVE trim(_)
trim(s) ==
    IF s = <<>> THEN s
    ELSE IF Head(s) \in Whitespace THEN trim(Tail(s))
    ELSE IF s[Len(s)] \in Whitespace THEN trim(SubSeq(s, 1, Len(s) - 1))
    ELSE s

\* t occurs in s as a contiguous substring: String.prototype.includes
includes(s, t) ==
    \E i \in 0..(Len(s) - Len(t)) : SubSeq(s, i + 1, i + Len(t)) = t

\* !value || !value.trim()
isBlank(s) == (s = <<>>) \/ (trim(s) = <<>>)

\* /\S+@\S+\.\S+/.test(s): unanchored; some '@' preceded by a non-space,
\* followed by one or more non-spaces, a '.', and a non-space
emailRegexTest(s) ==
    \E p \in 1..Len(s), q \in 1..Len(s) :
        /\ s[p] = "@"
        /\ p > 1
        /\ NonWS(s[p - 1])
        /\ q > p + 1
        /\ \A k \in (p + 1)..(q - 1) : NonWS(s[k])
        /\ s[q] = "."
        /\ q < Len(s)
        /\ NonWS(s[q + 1])

\* decimal digits of a natural number, as a string
DigitChar(d) == CASE d = 0 -> "0" [] d = 1 -> "1" [] d = 2 -> "2" [] d = 3 -> "3"
                  [] d = 4 -> "4" [] d = 5 -> "5" [] d = 6 -> "6" [] d = 7 -> "7"
                  [] d = 8 -> "8" [] d = 9 -> "9"

RECURSIVE numberToString(_)
numberToString(n) ==
    IF n < 10 THEN <<DigitChar(n)>>
    ELSE Append(numberToString(n \div 10), DigitChar(n % 10))

----------------------------------------------------------------------------
(* Messages *)

NameRequired == <<"Name is required">>
EmailRequired == <<"Email is required">>
EmailInvalid == <<"Please enter a valid email">>
MessageRequired == <<"Message is required">>

NetworkErrorMessage == <<"Network error. Please check your connection and try again.">>
TimedOutMessage == <<"Request timed out. Please try again.">>
ConnectionBlockedMessage == <<"Connection blocked. Please try again later.">>

CORS == <<"C", "O", "R", "S">>
HTTP == <<"H", "T", "T", "P">>

\* `HTTP ${response.status}: ${errorText}`
httpErrorMessage(status, errorText) ==
    HTTP \o <<" ">> \o numberToString(status) \o <<":", " ">> \o errorText

----------------------------------------------------------------------------
(* Maps from field name to string: { [key: string]: string } *)

Fields == {"name", "email", "message"}

EmptyMap == [k \in {} |-> <<>>]

put(m, k, v) == [x \in (DOMAIN m) \cup {k} |-> IF x = k THEN v ELSE m[x]]

\* errors[name] is truthy: the key is there and its text is not ''
truthy(m, k) == k \in DOMAIN m /\ m[k] # <<>>

Null == [null |-> TRUE]

EmptyForm == [name |-> <<>>, email |-> <<>>, message |-> <<>>]

----------------------------------------------------------------------------
(* validateForm *)

\* validateForm without its check of the message field
validateForm_NoMessage(fd) ==
    LET e1 == IF isBlank(fd.name) THEN put(EmptyMap, "name", NameRequired)
              ELSE EmptyMap
        e2 == IF isBlank(fd.email) THEN put(e1, "email", EmailRequired)
              ELSE IF ~emailRegexTest(fd.email) THEN put(e1, "email", EmailInvalid)
              ELSE e1
    IN  e2

\* validateForm answering "Please enter a valid email" for a blank e-mail too
validateForm_EmailNeverRequired(fd) ==
    LET e1 == IF isBlank(fd.name) THEN put(EmptyMap, "name", NameRequired)
              ELSE EmptyMap
        e2 == IF ~emailRegexTest(fd.email) THEN put(e1, "email", EmailInvalid)
              ELSE e1
        e3 == IF isBlank(fd.message) THEN put(e2, "message", MessageRequired)
              ELSE e2
    IN  e3

\* the newErrors object validateForm builds for a draft
validateForm(fd) ==
    LET e1 == IF isBlank(fd.name) THEN put(EmptyMap, "name", NameRequired)
              ELSE EmptyMap
        e2 == IF isBlank(fd.email) THEN put(e1, "email", EmailRequired)
              ELSE IF ~emailRegexTest(fd.email) THEN put(e1, "email", EmailInvalid)
              ELSE e1
        e3 == IF isBlank(fd.message) THEN put(e2, "message", MessageRequired)
              ELSE e2
    IN  e3

\* Object.keys(newErrors).length === 0
isValid(newErrors) == DOMAIN newErrors = {}

----------------------------------------------------------------------------
(* State updates: a handler's run is the sequence of setter calls it makes *)

SetFormData(v) == [set |-> "formData", value |-> v]
SetResponse(v) == [set |-> "response", value |-> v]
SetErrors(v) == [set |-> "errors", value |-> v]
SetIsSubmitting(v) == [set |-> "isSubmitting", value |-> v]

\* the value a state variable has after the setter calls ops (the last one wins)
after(ops, var, old) ==
    LET idx == {i \in 1..Len(ops) : ops[i].set = var}
    IN  IF idx = {} THEN old
        ELSE ops[CHOOSE i \in idx : \A j \in idx : j <= i].value

\* how many times ops stores a result in the banner state
writesOf(ops) ==
    Cardinality({i \in 1..Len(ops) : ops[i].set = "response" /\ ops[i].value # Null})

----------------------------------------------------------------------------
(* What the endpoint and the transport can deliver *)

Statuses == {200, 404, 500}

\* response.ok
ok(status) == status >= 200 /\ status <= 299

\* response.text() of an error response
BodyTexts == {<<>>, <<"o", "o", "p", "s">>, <<"n", "o", " ">> \o CORS}

ServerErrorMaps ==
    { put(EmptyMap, "email", <<"Email already used">>),
      put(EmptyMap, "name", <<"Name too long">>) }

\* bodies that are no JSON: an empty body, a plain text
NotJsonTexts == {<<>>, <<"n", "o", " ">> \o CORS}

\* the wording of the SyntaxError is the engine's.  Those of the builds seen:
\*   positional  the offending character and its position
\*   quoting     the offending character and the text, quoted
\*   located     as quoting, with line and column where a position is given
\*   prefixed    as located, behind the text the fetch API puts in front
Engines == {"positional", "quoting", "located", "prefixed"}

FetchJsonPrefix == <<"Failed to execute 'json' on 'Response': ">>

\* the white space JSON.parse skips
JsonWhitespace == {" ", "\t", "\n", "\r"}

\* the literals a JSON text can start with
JsonLiterals == {<<"n", "u", "l", "l">>, <<"t", "r", "u", "e">>,
                 <<"f", "a", "l", "s", "e">>}

\* the texts the quoting wordings name without an offending character
SpecialTexts == {<<"u", "n", "d", "e", "f", "i", "n", "e", "d">>,
                 <<"N", "a", "N">>,
                 <<"I", "n", "f", "i", "n", "i", "t", "y">>}

\* the first index from k on that holds no white space, Len(text) + 1 if none
skipWhitespace(text, k) ==
    LET rest == {j \in k..Len(text) : text[j] \notin JsonWhitespace}
    IN  IF rest = {} THEN Len(text) + 1 ELSE CHOOSE j \in rest : \A i \in rest : j <= i

\* how JSON.parse fails on text: at its end, at a character that fits no
\* value, or at a character after a complete value.  For a text of letters,
\* white space and markup (no digit, quote, bracket, brace or minus sign),
\* short enough to be quoted whole; "valid" when the text is a JSON literal
parseFailure(text) ==
    LET s == skipWhitespace(text, 1)
    IN  IF s > Len(text) THEN [kind |-> "end", at |-> 0]
        ELSE IF \E L \in JsonLiterals : L[1] = text[s]
        THEN LET L == CHOOSE M \in JsonLiterals : M[1] = text[s]
                 bad == {j \in 1..Len(L) :
                            s + j - 1 > Len(text) \/ text[s + j - 1] # L[j]}
                 j == CHOOSE i \in bad : \A h \in bad : i <= h
                 e == skipWhitespace(text, s + Len(L))
             IN  IF bad # {}
                 THEN IF s + j - 1 > Len(text) THEN [kind |-> "end", at |-> 0]
                      ELSE [kind |-> "token", at |-> s + j - 1]
                 ELSE IF e > Len(text) THEN [kind |-> "valid", at |-> 0]
                 ELSE [kind |-> "afterJson", at |-> e]
        ELSE [kind |-> "token", at |-> s]

\* index of the character JSON.parse stops at, 0 when it stops at the end
unexpectedAt(text) == parseFailure(text).at

\* " (line L column C)" of the character at index k: a line ends with a line
\* feed, a carriage return, or the two together
lineAndColumn(text, k) ==
    LET breaks == {j \in 1..(k - 1) :
                      \/ text[j] = "\n"
                      \/ text[j] = "\r" /\ text[j + 1] # "\n"}
        lastBreak == IF breaks = {} THEN 0
                     ELSE CHOOSE j \in breaks : \A i \in breaks : i <= j
    IN  <<" (line ">> \o numberToString(Cardinality(breaks) + 1)
        \o <<" column ">> \o numberToString(k - lastBreak) \o <<")">>

\* error.message of the SyntaxError thrown for text
syntaxErrorMessage(text, engine) ==
    LET f == parseFailure(text)
        k == f.at
        core ==
            IF f.kind = "end" THEN <<"Unexpected end of JSON input">>
            ELSE IF engine = "positional"
            THEN <<"Unexpected token ", text[k], " in JSON at position ">>
                 \o numberToString(k - 1)
            ELSE IF f.kind = "afterJson"
            THEN <<"Unexpected non-whitespace character after JSON at position ">>
                 \o numberToString(k - 1)
                 \o (IF engine = "quoting" THEN <<>> ELSE lineAndColumn(text, k))
            ELSE IF text \in SpecialTexts
            THEN <<"\"">> \o text \o <<"\" is not valid JSON">>
            ELSE <<"Unexpected token '", text[k], "', \"">> \o text
                 \o <<"\" is not valid JSON">>
    IN  (IF engine = "prefixed" THEN FetchJsonPrefix ELSE <<>>) \o core

\* the value response.json() rejects with
SyntaxError(text, engine) ==
    [isError |-> TRUE, name |-> "SyntaxError",
     message |-> syntaxErrorMessage(text, engine)]

\* a body that is no JSON, read by one of the engines
NotJsonBodies ==
    {[json |-> FALSE, text |-> t, engine |-> e] : t \in NotJsonTexts, e \in Engines}

\* what response.json() rejects with for such a body
SyntaxErrorOf(body) == SyntaxError(body.text, body.engine)

\* reading a property of null throws a TypeError whose wording is the
\* engine's: the two of V8 (older builds, newer builds)
NullReadWordings == {"property", "properties"}

\* error.message of the TypeError thrown by null[name]
nullReadMessage(name, wording) ==
    IF wording = "property"
    THEN <<"Cannot read property '", name, "' of null">>
    ELSE <<"Cannot read properties of null (reading '", name, "')">>

\* the value thrown by null[name]
NullReadError(name, wording) ==
    [isError |-> TRUE, name |-> "TypeError", message |-> nullReadMessage(name, wording)]

\* the objects the endpoint answers with
ApiResponses ==
    {[success |-> TRUE, message |-> <<"Message sent">>],
     [success |-> FALSE, message |-> <<"Rejected">>]}
    \cup {[success |-> FALSE, message |-> <<"Validation failed">>, errors |-> m] :
             m \in ServerErrorMaps \cup {Null}}

\* response.json() of a 2xx response: an ApiResponse, the JSON text null, or
\* a body that is no JSON.  wording is the engine's for a thrown TypeError;
\* it shows for null only, so the objects are listed under one wording
JsonBodies ==
    {[json |-> TRUE, data |-> d, wording |-> "properties"] : d \in ApiResponses}
    \cup {[json |-> TRUE, data |-> Null, wording |-> w] : w \in NullReadWordings}
    \cup NotJsonBodies

\* if (data.success): the property is there and true
truthySuccess(data) == "success" \in DOMAIN data /\ data.success

\* if (data.errors): the property is there and holds an object, not null
truthyErrors(data) == "errors" \in DOMAIN data /\ data.errors # Null

\* thrown values: error instanceof Error, error.name, error.message
AbortError == [isError |-> TRUE, name |-> "AbortError",
               message |-> <<"The user aborted a request.">>]
HttpError(status, errorText) ==
    [isError |-> TRUE, name |-> "Error", message |-> httpErrorMessage(status, errorText)]

\* the wording of fetch's TypeError is the engine's: those of Chromium and
\* of node
FetchFailureMessages == {<<"Failed to fetch">>, <<"fetch failed">>}

\* what fetch rejects with when the network fails
FetchFailures ==
    {[isError |-> TRUE, name |-> "TypeError", message |-> m] : m \in FetchFailureMessages}

----------------------------------------------------------------------------
(* submitToApi *)

\* the catch block without its AbortError case
errorMessageOf_NoAbort(error) ==
    IF error.isError
    THEN IF includes(error.message, CORS) THEN ConnectionBlockedMessage
         ELSE error.message
    ELSE NetworkErrorMessage

\* the catch block: the message chosen for a thrown value
errorMessageOf(error) ==
    IF error.isError
    THEN IF error.name = "AbortError" THEN TimedOutMessage
         ELSE IF includes(error.message, CORS) THEN ConnectionBlockedMessage
         ELSE error.message
    ELSE NetworkErrorMessage

submitToApi_catch(error) ==
    <<SetResponse([success |-> FALSE, message |-> errorMessageOf(error)])>>

\* the data branch storing no result when the endpoint reports success
submitToApi_data_NoResult(data, wording) ==
    IF data = Null THEN submitToApi_catch(NullReadError("success", wording))
    ELSE IF truthySuccess(data)
    THEN <<SetFormData(EmptyForm)>>
    ELSE <<SetResponse(data)>>
         \o (IF truthyErrors(data) THEN <<SetErrors(data.errors)>> ELSE <<>>)

\* the data branch clearing the form whatever the endpoint reports
submitToApi_data_AlwaysReset(data, wording) ==
    IF data = Null THEN submitToApi_catch(NullReadError("success", wording))
    ELSE <<SetResponse(data), SetFormData(EmptyForm)>>
         \o (IF ~truthySuccess(data) /\ truthyErrors(data)
             THEN <<SetErrors(data.errors)>> ELSE <<>>)

\* after response.json() resolved with data, an object or null: data.success
\* of null throws, and the catch block stores the failure
submitToApi_data(data, wording) ==
    IF data = Null THEN submitToApi_catch(NullReadError("success", wording))
    ELSE IF truthySuccess(data)
    THEN <<SetResponse(data), SetFormData(EmptyForm)>>
    ELSE <<SetResponse(data)>>
         \o (IF truthyErrors(data) THEN <<SetErrors(data.errors)>> ELSE <<>>)

\* the invocation started by a submit: its timer is set and fetch is awaited
newCall(fd) == [phase |-> "fetch", timer |-> "armed", payload |-> fd, status |-> 0]

RemoveAt(s, i) == SubSeq(s, 1, i - 1) \o SubSeq(s, i + 1, Len(s))

\* calls once invocation i is over: it stays only while its timer can still fire
over(i) ==
    IF calls[i].timer = "armed" THEN [calls EXCEPT ![i].phase = "done"]
    ELSE RemoveAt(calls, i)

\* the invocations whose request is outstanding
Outstanding == {i \in 1..Len(calls) : calls[i].phase # "done"}

\* submitToApi ends with the setter calls ops; the awaiting handler then runs
\* setIsSubmitting(false)
Settle(ops, newCalls, event) ==
    LET all == ops \o <<SetIsSubmitting(FALSE)>>
    IN  /\ formData' = after(all, "formData", formData)
        /\ response' = after(all, "response", response)
        /\ errors' = after(all, "errors", errors)
        /\ isSubmitting' = after(all, "isSubmitting", isSubmitting)
        /\ calls' = newCalls
        /\ last' = event @@ [op |-> "settled", writes |-> writesOf(ops)]

----------------------------------------------------------------------------
(* ContactsAdminPage: the list of submitted messages and its search *)

UpperCase == <<"A", "B", "C", "D", "E", "F", "G", "H", "I", "J", "K", "L", "M",
               "N", "O", "P", "Q", "R", "S", "T", "U", "V", "W", "X", "Y", "Z">>
LowerCase == <<"a", "b", "c", "d", "e", "f", "g", "h", "i", "j", "k", "l", "m",
               "n", "o", "p", "q", "r", "s", "t", "u", "v", "w", "x", "y", "z">>

\* String.prototype.toLowerCase
toLowerCase(s) ==
    [i \in 1..Len(s) |->
        IF \E k \in 1..Len(UpperCase) : UpperCase[k] = s[i]
        THEN LowerCase[CHOOSE k \in 1..Len(UpperCase) : UpperCase[k] = s[i]]
        ELSE s[i]]

\* the filter callback comparing the name only
matchesSearch_NameOnly(contact, term) ==
    includes(toLowerCase(contact.name), toLowerCase(term))

\* the callback of contacts.filter in the effect
matchesSearch(contact, term) ==
    \/ includes(toLowerCase(contact.name), toLowerCase(term))
    \/ includes(toLowerCase(contact.email), toLowerCase(term))
    \/ includes(toLowerCase(contact.message), toLowerCase(term))

\* contacts.filter(...): the matching contacts, in the order of the list
filterContacts(list, term) == SelectSeq(list, LAMBDA c : matchesSearch(c, term))

FailedToFetchContacts == <<"Failed to fetch contacts">>
AnErrorOccurred == <<"An error occurred">>

\* a string held in a state that can also be null
Text(str) == [text |-> str]

\* err instanceof Error ? err.message : 'An error occurred'
fetchErrorText(err) == Text(IF err.isError THEN err.message ELSE AnErrorOccurred)

\* the contacts the endpoint holds
Ann == [id |-> 1, name |-> <<"A", "n", "n">>,
        email |-> <<"a", "@", "x", ".", "c", "o", "m">>,
        message |-> <<"h", "i">>, createdAt |-> <<"2024-01-01T10:00:00Z">>]
Bob == [id |-> 2, name |-> <<"B", "o", "b">>,
        email |-> <<"b", "@", "x", ".", "c", "o", "m">>,
        message |-> <<"h", "e", "y", " ", "A", "n", "n">>,
        createdAt |-> <<"2024-01-02T10:00:00Z">>]

\* response.json() of the GET: the lists the endpoint can answer with
ContactLists == {<<>>, <<Ann>>, <<Ann, Bob>>, <<Bob, Ann>>}

\* the texts typed into the search box
SearchTerms == {<<>>, <<"a", "n", "n">>, <<"B">>, <<"X", ".", "C">>, <<"z", "z", "z">>}

AdminInit ==
    /\ contacts = <<>>
    /\ loading = TRUE
    /\ fetchError = Null
    /\ searchTerm = <<>>
    /\ filteredContacts = <<>>
    /\ gets = <<>>
    /\ pendingEffects = "mount"

\* the effects of the first render: fetchContacts() starts (setLoading(true),
\* fetch), then the filter effect runs
mountEffects ==
    /\ pendingEffects = "mount"
    /\ loading' = TRUE
    /\ gets' = Append(gets, [phase |-> "fetch"])
    /\ filteredContacts' = filterContacts(contacts, searchTerm)
    /\ pendingEffects' = "none"
    /\ UNCHANGED <<contacts, fetchError, searchTerm>>
    /\ last' = [op |-> "mounted"]

\* the effect with dependencies [contacts, searchTerm], run after a render in
\* which one of them changed
filterEffect ==
    /\ pendingEffects = "filter"
    /\ filteredContacts' = filterContacts(contacts, searchTerm)
    /\ pendingEffects' = "none"
    /\ UNCHANGED <<contacts, loading, fetchError, searchTerm, gets>>
    /\ last' = [op |-> "filtered"]

\* onChange of the search box
searchChange(value) ==
    /\ pendingEffects = "none"
    /\ searchTerm' = value
    /\ pendingEffects' = IF value # searchTerm THEN "filter" ELSE "none"
    /\ UNCHANGED <<contacts, loading, fetchError, filteredContacts, gets>>
    /\ last' = [op |-> "search"]

\* a click on Refresh whatever loading is
refreshClick_NotDisabled ==
    /\ pendingEffects = "none"
    /\ loading' = TRUE
    /\ gets' = Append(gets, [phase |-> "fetch"])
    /\ UNCHANGED <<contacts, fetchError, searchTerm, filteredContacts, pendingEffects>>
    /\ last' = [op |-> "refresh"]

\* onClick of Refresh (disabled while loading): fetchContacts() starts
refreshClick ==
    /\ pendingEffects = "none"
    /\ ~loading
    /\ loading' = TRUE
    /\ gets' = Append(gets, [phase |-> "fetch"])
    /\ UNCHANGED <<contacts, fetchError, searchTerm, filteredContacts, pendingEffects>>
    /\ last' = [op |-> "refresh"]

\* the catch block emptying the list as well
fetchContacts_catch_ClearsList(i, err, cause) ==
    /\ contacts' = <<>>
    /\ fetchError' = fetchErrorText(err)
    /\ loading' = FALSE
    /\ gets' = RemoveAt(gets, i)
    /\ pendingEffects' = "filter"
    /\ UNCHANGED <<searchTerm, filteredContacts>>
    /\ last' = [op |-> "loadFailed"] @@ cause

\* catch (err) { setError(...) } finally { setLoading(false) }
fetchContacts_catch(i, err, cause) ==
    /\ fetchError' = fetchErrorText(err)
    /\ loading' = FALSE
    /\ gets' = RemoveAt(gets, i)
    /\ UNCHANGED <<contacts, searchTerm, filteredContacts, pendingEffects>>
    /\ last' = [op |-> "loadFailed"] @@ cause

\* fetch of the GET resolves: a non-2xx status throws, a 2xx one reads the body
getResolves(i, status) ==
    /\ pendingEffects = "none"
    /\ gets[i].phase = "fetch"
    /\ IF ~ok(status)
       THEN fetchContacts_catch(i, [isError |-> TRUE, name |-> "Error",
                                    message |-> FailedToFetchContacts],
                                [cause |-> "status", status |-> status])
       ELSE /\ gets' = [gets EXCEPT ![i].phase = "json"]
            /\ UNCHANGED <<contacts, loading, fetchError, searchTerm, filteredContacts,
                           pendingEffects>>
            /\ last' = [op |-> "getHeaders", status |-> status]

\* fetch of the GET rejects (network failure)
getRejects(i, err) ==
    /\ pendingEffects = "none"
    /\ gets[i].phase = "fetch"
    /\ fetchContacts_catch(i, err, [cause |-> "network"])

\* the success path keeping the error of an earlier failure
getJsonArrives_KeepsError(i, body) ==
    /\ pendingEffects = "none"
    /\ gets[i].phase = "json"
    /\ IF body.json
       THEN /\ contacts' = body.data
            /\ loading' = FALSE
            /\ gets' = RemoveAt(gets, i)
            /\ pendingEffects' = "filter"
            /\ UNCHANGED <<fetchError, searchTerm, filteredContacts>>
            /\ last' = [op |-> "loaded", data |-> body.data, prevError |-> fetchError]
       ELSE fetchContacts_catch(i, SyntaxErrorOf(body), [cause |-> "nojson"])

\* response.json() of the GET resolves with data (setContacts, setError(null),
\* setLoading(false)), or rejects because the body is no JSON
getJsonArrives(i, body) ==
    /\ pendingEffects = "none"
    /\ gets[i].phase = "json"
    /\ IF body.json
       THEN /\ contacts' = body.data
            /\ fetchError' = Null
            /\ loading' = FALSE
            /\ gets' = RemoveAt(gets, i)
            /\ pendingEffects' = "filter"
            /\ UNCHANGED <<searchTerm, filteredContacts>>
            /\ last' = [op |-> "loaded", data |-> body.data, prevError |-> fetchError]
       ELSE fetchContacts_catch(i, SyntaxErrorOf(body), [cause |-> "nojson"])

\* what the page renders
showsSpinner == loading
showsErrorAlert == fetchError # Null /\ fetchError.text # <<>>
showsGrid == ~loading

NoContactsFound == <<"No contacts found">>
NoContactsMatch == <<"No contacts match your search">>

\* the text of the empty-state box, <<>> when the box is not rendered
emptyStateText ==
    IF loading THEN <<>>
    ELSE IF Len(filteredContacts) = 0
         THEN IF Len(contacts) = 0 THEN NoContactsFound ELSE NoContactsMatch
         ELSE <<>>

GetBodies == {[json |-> TRUE, data |-> list] : list \in ContactLists}
             \cup NotJsonBodies

SearchChange == \E value \in SearchTerms : searchChange(value)
GetResolves == \E i \in 1..Len(gets) : \E status \in Statuses : getResolves(i, status)
GetRejects == \E i \in 1..Len(gets) : \E err \in FetchFailures : getRejects(i, err)
GetJsonArrives == \E i \in 1..Len(gets) : \E body \in GetBodies : getJsonArrives(i, body)

NextAdmin ==
    \/ mountEffects /\ UNCHANGED formVars
    \/ filterEffect /\ UNCHANGED formVars
    \/ SearchChange /\ UNCHANGED formVars
    \/ refreshClick /\ UNCHANGED formVars
    \/ GetResolves /\ UNCHANGED formVars
    \/ GetRejects /\ UNCHANGED formVars
    \/ GetJsonArrives /\ UNCHANGED formVars

----------------------------------------------------------------------------
(* Initial state: the useState initial values, nothing in flight *)

Init ==
    /\ formData = EmptyForm
    /\ isSubmitting = FALSE
    /\ response = Null
    /\ errors = EmptyMap
    /\ calls = <<>>
    /\ last = [op |-> "mount"]
    /\ AdminInit

\* the texts typed or pasted into the fields
NameValues == {<<>>, <<" ">>, <<"A", "n", "n">>}
EmailValues == {<<>>, <<"a", "n", "n">>, <<"a", "@", "x", ".", "c">>}
MessageValues == {<<>>, <<"h", "i">>}

ValuesOf(name) ==
    CASE name = "name" -> NameValues
      [] name = "email" -> EmailValues
      [] name = "message" -> MessageValues

----------------------------------------------------------------------------
(* Event handlers *)

\* onChange dropping every field's error, not only the edited field's
handleInputChange_ClearsAllErrors(name, value) ==
    /\ formData' = [formData EXCEPT ![name] = value]
    /\ errors' = IF truthy(errors, name) THEN EmptyMap ELSE errors
    /\ response' = IF response # Null THEN Null ELSE response
    /\ UNCHANGED <<isSubmitting, calls>>
    /\ last' = [op |-> "edit", field |-> name]

\* onChange of an input: e.target.name = name, e.target.value = value
handleInputChange(name, value) ==
    /\ formData' = [formData EXCEPT ![name] = value]
    /\ errors' = IF truthy(errors, name) THEN put(errors, name, <<>>) ELSE errors
    /\ response' = IF response # Null THEN Null ELSE response
    /\ UNCHANGED <<isSubmitting, calls>>
    /\ last' = [op |-> "edit", field |-> name]

\* onSubmit starting submitToApi without looking at validateForm's answer
handleSubmit_NoValidation ==
    /\ Len(calls) < MaxCalls
    /\ isSubmitting' = TRUE
    /\ response' = Null
    /\ errors' = EmptyMap
    /\ calls' = Append(calls, newCall(formData))
    /\ UNCHANGED formData
    /\ last' = [op |-> "post", via |-> "form"]

\* onSubmit of the form: validates, then starts submitToApi
handleSubmit ==
    LET newErrors == validateForm(formData)
    IN  IF ~isValid(newErrors)
        THEN /\ errors' = newErrors
             /\ UNCHANGED <<formData, isSubmitting, response, calls>>
             /\ last' = [op |-> "invalid", via |-> "form"]
        ELSE /\ Len(calls) < MaxCalls
             /\ isSubmitting' = TRUE
             /\ response' = Null
             /\ errors' = EmptyMap
             /\ calls' = Append(calls, newCall(formData))
             /\ UNCHANGED formData
             /\ last' = [op |-> "post", via |-> "form"]

\* onClick of the "Send Message" button (disabled while isSubmitting)
handleButtonClick ==
    /\ ~isSubmitting
    /\ LET newErrors == validateForm(formData)
       IN  IF ~isValid(newErrors)
           THEN /\ errors' = newErrors
                /\ UNCHANGED <<formData, isSubmitting, response, calls>>
                /\ last' = [op |-> "invalid", via |-> "button"]
           ELSE /\ Len(calls) < MaxCalls
                /\ isSubmitting' = TRUE
                /\ response' = Null
                /\ errors' = EmptyMap
                /\ calls' = Append(calls, newCall(formData))
                /\ UNCHANGED formData
                /\ last' = [op |-> "post", via |-> "button"]

\* onClick of the "Send (Backup Method)" button (disabled while isSubmitting)
backupButtonClick ==
    /\ ~isSubmitting
    /\ LET newErrors == validateForm(formData)
       IN  IF ~isValid(newErrors)
           THEN /\ errors' = newErrors
                /\ UNCHANGED <<formData, isSubmitting, response, calls>>
                /\ last' = [op |-> "invalid", via |-> "backup"]
           ELSE /\ Len(calls) < MaxCalls
                /\ isSubmitting' = TRUE
                /\ errors' = newErrors
                /\ calls' = Append(calls, newCall(formData))
                /\ UNCHANGED <<formData, response>>
                /\ last' = [op |-> "post", via |-> "backup"]

----------------------------------------------------------------------------
(* The asynchronous steps of submitToApi *)

\* fetch resolves with the response headers: clearTimeout, then the body is read
fetchResolves(i, status) ==
    /\ calls[i].phase = "fetch"
    /\ calls' = [calls EXCEPT ![i].timer = "cleared",
                              ![i].status = status,
                              ![i].phase = IF ok(status) THEN "json" ELSE "text"]
    /\ UNCHANGED <<formData, isSubmitting, response, errors>>
    /\ last' = [op |-> "headers", status |-> status]

\* fetch rejects (network failure): control goes to catch, the timer stays set
fetchRejects(i, error) ==
    /\ calls[i].phase = "fetch"
    /\ Settle(submitToApi_catch(error), over(i),
              [outcome |-> "network", error |-> error])

\* response.text() of a non-2xx response resolves: throw new Error(`HTTP ...`)
textArrives(i, errorText) ==
    /\ calls[i].phase = "text"
    /\ Settle(submitToApi_catch(HttpError(calls[i].status, errorText)), over(i),
              [outcome |-> "http", status |-> calls[i].status, body |-> errorText])

\* response.json() of a 2xx response resolves with data, or rejects (no JSON)
jsonArrives(i, body) ==
    /\ calls[i].phase = "json"
    /\ IF body.json
       THEN Settle(submitToApi_data(body.data, body.wording), over(i),
                   [outcome |-> "json", data |-> body.data])
       ELSE Settle(submitToApi_catch(SyntaxErrorOf(body)), over(i),
                   [outcome |-> "nojson", text |-> body.text])

\* the timer reporting a timeout whenever it fires, a pending fetch or not
timerFires_LateReports(i) ==
    /\ calls[i].timer = "armed"
    /\ Settle(submitToApi_catch(AbortError),
              RemoveAt([calls EXCEPT ![i].timer = "fired"], i),
              [outcome |-> "timeout"])

\* the 15 s timer fires: controller.abort().  A pending fetch rejects with an
\* AbortError; a request that is already over is not affected
timerFires(i) ==
    /\ calls[i].timer = "armed"
    /\ LET fired == [calls EXCEPT ![i].timer = "fired"]
       IN  IF calls[i].phase = "fetch"
           THEN Settle(submitToApi_catch(AbortError), RemoveAt(fired, i),
                       [outcome |-> "timeout"])
           ELSE /\ calls' = RemoveAt(fired, i)
                /\ UNCHANGED <<formData, isSubmitting, response, errors>>
                /\ last' = [op |-> "lateTimer"]

----------------------------------------------------------------------------
(* The component *)

Edit == \E name \in Fields : \E value \in ValuesOf(name) : handleInputChange(name, value)
FetchResolves == \E i \in 1..Len(calls) : \E status \in Statuses : fetchResolves(i, status)
FetchRejects == \E i \in 1..Len(calls) : \E error \in FetchFailures : fetchRejects(i, error)
TextArrives == \E i \in 1..Len(calls) : \E t \in BodyTexts : textArrives(i, t)
JsonArrives == \E i \in 1..Len(calls) : \E body \in JsonBodies : jsonArrives(i, body)
TimerFires == \E i \in 1..Len(calls) : timerFires(i)

Next ==
    \/ Edit /\ UNCHANGED adminVars
    \/ handleSubmit /\ UNCHANGED adminVars
    \/ handleButtonClick /\ UNCHANGED adminVars
    \/ backupButtonClick /\ UNCHANGED adminVars
    \/ FetchResolves /\ UNCHANGED adminVars
    \/ FetchRejects /\ UNCHANGED adminVars
    \/ TextArrives /\ UNCHANGED adminVars
    \/ JsonArrives /\ UNCHANGED adminVars
    \/ TimerFires /\ UNCHANGED adminVars

Spec == Init /\ [][Next]_vars

\* the contacts page alone
SpecAdmin == Init /\ [][NextAdmin]_vars

\* the event loop runs a timer that is due: an armed timer does fire
LiveSpec == Spec /\ WF_vars(TimerFires /\ UNCHANGED adminVars)

----------------------------------------------------------------------------
(* The Formspree revision of the form (src/unnamed/part_001): the same state,
   handleInputChange and validateForm; submitToFormspree posts to the relay
   and reads the relay's answers *)

ThankYouMessage == <<"Thank you for your message! We'll get back to you soon.">>
FixErrorsMessage == <<"Please fix the errors below and try again.">>
FailedToSendMessage == <<"Failed to send message. Please try again.">>

\* `New contact form submission from ${formData.name}`
subjectOf(fd) == <<"New contact form submission from ">> \o fd.name

\* the invocation started by a submit: timer set, the body built, fetch awaited
formspree_newCall(fd) ==
    [phase |-> "fetch", timer |-> "armed", status |-> 0,
     payload |-> [name |-> fd.name, email |-> fd.email, message |-> fd.message,
                  _subject |-> subjectOf(fd)]]

\* thrown when a property of null is read or forEach is not a function; its
\* message, the engine's, names the property and is only tested for 'CORS'
TypeError == [isError |-> TRUE, name |-> "TypeError",
              message |-> <<"errorData.errors.forEach is not a function">>]

\* response.json() of a 2xx answer: the relay's JSON, an empty object, or a
\* body that is no JSON (an empty body, an HTML page)
FormspreeOkBodies ==
    {[json |-> TRUE, data |-> [ok |-> TRUE, next |-> <<"/thanks">>]],
     [json |-> TRUE, data |-> EmptyMap]}
    \cup NotJsonBodies

\* response.json() of a non-2xx answer
FormspreeErrorBodies ==
    {[json |-> TRUE,
      data |-> [errors |-> [array |-> <<[field |-> "email",
                                         message |-> <<"should be an email">>],
                                        [message |-> <<"Form is disabled">>]>>]]],
     [json |-> TRUE, data |-> [errors |-> [array |-> <<>>]]],
     [json |-> TRUE,
      data |-> [errors |-> [array |-> <<[field |-> "", message |-> <<"a">>]>>]]],
     [json |-> TRUE, data |-> [errors |-> [array |-> <<Null>>]]],
     [json |-> TRUE, data |-> [errors |-> [string |-> <<"bad request">>]]],
     [json |-> TRUE,
      data |-> [errors |-> [string |-> <<>>],
                error |-> [string |-> <<"Form not found">>]]],
     [json |-> TRUE,
      data |-> [errors |-> Null, error |-> [string |-> <<"Form not found">>]]],
     [json |-> TRUE, data |-> [error |-> [string |-> <<"Form not found">>]]],
     [json |-> TRUE, data |-> [error |-> Null]],
     [json |-> TRUE, data |-> Null],
     [json |-> TRUE, data |-> [error |-> [string |-> <<>>]]],
     [json |-> TRUE, data |-> EmptyMap]}
    \cup NotJsonBodies

\* if (errorData.errors), errorData.error || ...: a JSON value (an array, a
\* string or null) is truthy unless it is null or the empty string
truthyJson(v) == v # Null /\ ("string" \in DOMAIN v => v.string # <<>>)

\* if (error.field): the property is there and is not ''
truthyField(e) == "field" \in DOMAIN e /\ e.field # ""

\* errorData.errors.forEach(error => { if (error.field) ... }), for a list
\* of objects
RECURSIVE formspreeErrorsOf(_, _)
formspreeErrorsOf(list, acc) ==
    IF list = <<>> THEN acc
    ELSE formspreeErrorsOf(Tail(list),
             IF truthyField(Head(list))
             THEN put(acc, Head(list).field, Head(list).message)
             ELSE acc)

\* the catch block of submitToFormspree: the message chosen for a thrown value
formspree_errorMessageOf(error) ==
    IF error.isError
    THEN IF error.name = "AbortError" THEN TimedOutMessage
         ELSE IF includes(error.message, CORS) THEN ConnectionBlockedMessage
         ELSE FailedToSendMessage
    ELSE NetworkErrorMessage

submitToFormspree_catch(error) ==
    <<SetResponse([success |-> FALSE, message |-> formspree_errorMessageOf(error)])>>

\* the response.ok branch once response.json() settled
submitToFormspree_ok(body) ==
    IF body.json
    THEN <<SetResponse([success |-> TRUE, message |-> ThankYouMessage]),
           SetFormData(EmptyForm)>>
    ELSE submitToFormspree_catch(SyntaxErrorOf(body))

\* the else branch once response.json() settled
submitToFormspree_error(body) ==
    IF ~body.json THEN submitToFormspree_catch(SyntaxErrorOf(body))
    ELSE LET errorData == body.data
         IN  IF errorData = Null THEN submitToFormspree_catch(TypeError)
             ELSE IF "errors" \in DOMAIN errorData /\ truthyJson(errorData.errors)
             THEN IF "array" \in DOMAIN errorData.errors
                     /\ \A k \in 1..Len(errorData.errors.array) :
                            errorData.errors.array[k] # Null
                  THEN <<SetErrors(formspreeErrorsOf(errorData.errors.array, EmptyMap)),
                         SetResponse([success |-> FALSE, message |-> FixErrorsMessage])>>
                  ELSE submitToFormspree_catch(TypeError)
             ELSE <<SetResponse([success |-> FALSE,
                                 message |-> IF "error" \in DOMAIN errorData
                                                /\ truthyJson(errorData.error)
                                             THEN errorData.error.string
                                             ELSE FailedToSendMessage])>>

\* onChange of an input: the code of handleInputChange is the same
formspree_handleInputChange(name, value) == handleInputChange(name, value)

\* onSubmit of the form: validates, then starts submitToFormspree
formspree_handleSubmit ==
    LET newErrors == validateForm(formData)
    IN  IF ~isValid(newErrors)
        THEN /\ errors' = newErrors
             /\ UNCHANGED <<formData, isSubmitting, response, calls>>
             /\ last' = [op |-> "invalid", via |-> "form"]
        ELSE /\ Len(calls) < MaxCalls
             /\ isSubmitting' = TRUE
             /\ response' = Null
             /\ errors' = EmptyMap
             /\ calls' = Append(calls, formspree_newCall(formData))
             /\ UNCHANGED formData
             /\ last' = [op |-> "post", via |-> "form"]

\* fetch resolves with the response headers: clearTimeout, then response.json()
formspree_fetchResolves(i, status) ==
    /\ calls[i].phase = "fetch"
    /\ calls' = [calls EXCEPT ![i].timer = "cleared",
                              ![i].status = status,
                              ![i].phase = IF ok(status) THEN "json" ELSE "errjson"]
    /\ UNCHANGED <<formData, isSubmitting, response, errors>>
    /\ last' = [op |-> "headers", status |-> status]

\* fetch rejects (network failure): control goes to catch, the timer stays set
formspree_fetchRejects(i, error) ==
    /\ calls[i].phase = "fetch"
    /\ Settle(submitToFormspree_catch(error), over(i),
              [outcome |-> "network", error |-> error])

\* response.json() of a 2xx answer resolves or rejects
formspree_okJsonArrives(i, body) ==
    /\ calls[i].phase = "json"
    /\ Settle(submitToFormspree_ok(body), over(i),
              [outcome |-> "answer", status |-> calls[i].status, body |-> body])

\* response.json() of a non-2xx answer resolves or rejects
formspree_errorJsonArrives(i, body) ==
    /\ calls[i].phase = "errjson"
    /\ Settle(submitToFormspree_error(body), over(i),
              [outcome |-> "answer", status |-> calls[i].status, body |-> body])

\* the 15 s timer fires: controller.abort()
formspree_timerFires(i) ==
    /\ calls[i].timer = "armed"
    /\ LET fired == [calls EXCEPT ![i].timer = "fired"]
       IN  IF calls[i].phase = "fetch"
           THEN Settle(submitToFormspree_catch(AbortError), RemoveAt(fired, i),
                       [outcome |-> "timeout"])
           ELSE /\ calls' = RemoveAt(fired, i)
                /\ UNCHANGED <<formData, isSubmitting, response, errors>>
                /\ last' = [op |-> "lateTimer"]

FormspreeEdit ==
    \E name \in Fields : \E value \in ValuesOf(name) :
        formspree_handleInputChange(name, value)
FormspreeFetchResolves ==
    \E i \in 1..Len(calls) : \E status \in Statuses : formspree_fetchResolves(i, status)
FormspreeFetchRejects ==
    \E i \in 1..Len(calls) : \E error \in FetchFailures : formspree_fetchRejects(i, error)
FormspreeOkJsonArrives ==
    \E i \in 1..Len(calls) : \E body \in FormspreeOkBodies : formspree_okJsonArrives(i, body)
FormspreeErrorJsonArrives ==
    \E i \in 1..Len(calls) : \E body \in FormspreeErrorBodies :
        formspree_errorJsonArrives(i, body)
FormspreeTimerFires == \E i \in 1..Len(calls) : formspree_timerFires(i)

NextFormspree ==
    \/ FormspreeEdit /\ UNCHANGED adminVars
    \/ formspree_handleSubmit /\ UNCHANGED adminVars
    \/ FormspreeFetchResolves /\ UNCHANGED adminVars
    \/ FormspreeFetchRejects /\ UNCHANGED adminVars
    \/ FormspreeOkJsonArrives /\ UNCHANGED adminVars
    \/ FormspreeErrorJsonArrives /\ UNCHANGED adminVars
    \/ FormspreeTimerFires /\ UNCHANGED adminVars

SpecFormspree == Init /\ [][NextFormspree]_vars

----------------------------------------------------------------------------
(* Validation over every draft: the draft is any text, a submit is triggered *)

EmailAlphabet == {"a", "@", ".", " "}

StringsUpTo(n, alphabet) == UNION {[1..k -> alphabet] : k \in 0..n}

TextValues == {<<>>, <<" ">>, <<"a">>, <<" ", "a", " ">>}

\* a longer e-mail text: an address after another word
PastedEmails == {<<"a", " ", "a", "@", "a", ".", "a">>}

InitValidate ==
    /\ formData \in [name : TextValues,
                     email : StringsUpTo(MaxEmailLen, EmailAlphabet) \cup PastedEmails,
                     message : TextValues]
    /\ isSubmitting = FALSE
    /\ response = Null
    /\ errors = EmptyMap
    /\ calls = <<>>
    /\ last = [op |-> "mount"]
    /\ AdminInit

NextValidate ==
    \/ handleSubmit /\ UNCHANGED adminVars
    \/ handleButtonClick /\ UNCHANGED adminVars
    \/ backupButtonClick /\ UNCHANGED adminVars

SpecValidate == InitValidate /\ [][NextValidate]_vars

----------------------------------------------------------------------------
(* Vocabulary of the claims *)

\* blank or whitespace-only
AllWhitespace(s) == \A i \in 1..Len(s) : s[i] \in Whitespace

BlankFields(fd) == {f \in Fields : AllWhitespace(fd[f])}

\* the step just taken ended a submitToApi invocation
Settled == last.op = "settled"

\* no whitespace in s
NoSpace(s) == \A i \in 1..Len(s) : s[i] \notin Whitespace

\* t as a whole is <non-whitespace>@<non-whitespace>.<non-whitespace>
HasEmailShape(t) ==
    \E a \in 1..Len(t), d \in 1..Len(t) :
        /\ t[a] = "@" /\ t[d] = "."
        /\ 1 < a /\ a + 1 < d /\ d < Len(t)
        /\ NoSpace(SubSeq(t, 1, a - 1))
        /\ NoSpace(SubSeq(t, a + 1, d - 1))
        /\ NoSpace(SubSeq(t, d + 1, Len(t)))

\* some part of s has that shape (what a pattern test without anchors accepts)
ContainsEmailShape(s) ==
    \E i \in 1..Len(s), j \in 1..Len(s) : i <= j /\ HasEmailShape(SubSeq(s, i, j))

\* the errors the specification of validate asks for
ExpectedErrors(fd) ==
    [f \in {g \in Fields : \/ AllWhitespace(fd[g])
                           \/ g = "email" /\ ~ContainsEmailShape(fd.email)}
        |-> CASE f = "name" -> NameRequired
              [] f = "message" -> MessageRequired
              [] f = "email" -> IF AllWhitespace(fd.email) THEN EmailRequired
                                ELSE EmailInvalid]

Failure(message) == [success |-> FALSE, message |-> message]

----------------------------------------------------------------------------
(* C1: a submit trigger (form submit, main button, backup button) starts a  *)
(* POST only when validateForm finds no error in the draft; when it finds   *)
(* one, no request is started and isSubmitting and the draft are unchanged. *)
C1_PostOnlyWhenValid ==
    [][ /\ Len(calls') > Len(calls) => isValid(validateForm(formData))
        /\ last'.op = "post" => isValid(validateForm(formData))
        /\ (last'.op \in {"invalid", "post"} /\ ~isValid(validateForm(formData)))
              => /\ calls' = calls
                 /\ isSubmitting' = isSubmitting
                 /\ formData' = formData
                 /\ last'.op = "invalid" ]_vars

C1_Witness ==
    /\ last.op = "invalid"
    /\ last.via = "backup"
    /\ formData # EmptyForm
    /\ ~isSubmitting
    /\ calls = <<>>

(* C2: at most one contact-form POST is outstanding at any time, through    *)
(* every submit path.                                                       *)
C2_AtMostOneOutstanding == Cardinality(Outstanding) <= 1

(* C3: every submitToApi invocation that ends has stored exactly one        *)
(* non-null result in the banner state, whatever the outcome of its request.*)
C3_ExactlyOneResult == Settled => (last.writes = 1 /\ response # Null)

C3_Witness ==
    /\ Settled
    /\ last.outcome = "json"
    /\ truthySuccess(last.data)
    /\ last.writes = 1

(* C4: whatever the endpoint does, isSubmitting returns to false once the   *)
(* 15-second timer has had the chance to fire.                              *)
C4_SubmittingEnds == isSubmitting ~> ~isSubmitting

(* C5: when the timer fires while the fetch is still pending, the attempt   *)
(* ends with the timed-out result, isSubmitting false and the draft as it   *)
(* was.                                                                     *)
C5_TimeoutResult ==
    [][ (last'.op = "settled" /\ last'.outcome = "timeout")
            => /\ response' = Failure(TimedOutMessage)
               /\ ~isSubmitting'
               /\ formData' = formData ]_vars

C5_Witness ==
    /\ Settled
    /\ last.outcome = "timeout"
    /\ response = Failure(TimedOutMessage)
    /\ formData # EmptyForm
    /\ ~isSubmitting

(* C6: the end of a submit attempt clears the draft exactly when the        *)
(* response is a 2xx whose JSON body reports success: true, and the banner  *)
(* then shows that result; every other outcome leaves the draft as it was.  *)
C6_ResetIffSuccess ==
    [][ last'.op = "settled"
            => IF last'.outcome = "json" /\ truthySuccess(last'.data)
               THEN formData' = EmptyForm /\ response' = last'.data
               ELSE formData' = formData ]_vars

C6_Witness ==
    /\ Settled
    /\ last.outcome = "json"
    /\ truthySuccess(last.data)
    /\ formData = EmptyForm
    /\ response = last.data

(* C7: for every non-2xx response with status s and body text b the result  *)
(* is {success: false, message: "HTTP s: b"}.                               *)
C7_HttpErrorMessage ==
    (Settled /\ last.outcome = "http")
        => response = Failure(httpErrorMessage(last.status, last.body))

(* C8: when fetch rejects with a network error, the result is               *)
(* {success: false, message: "Network error. Please check your connection   *)
(* and try again."}.                                                        *)
C8_NetworkErrorMessage ==
    (Settled /\ last.outcome = "network") => response = Failure(NetworkErrorMessage)

(* C9: a 2xx answer with success: false and an errors map becomes the       *)
(* result, the draft is kept, every field named in the map shows the        *)
(* server's reason, and no error entry of another field is lost.            *)
C9_ErrorsMerged ==
    [][ ( /\ last'.op = "settled"
          /\ last'.outcome = "json"
          /\ ~truthySuccess(last'.data)
          /\ truthyErrors(last'.data) )
            => /\ response' = last'.data
               /\ formData' = formData
               /\ \A f \in DOMAIN last'.data.errors :
                      f \in DOMAIN errors' /\ errors'[f] = last'.data.errors[f]
               /\ \A f \in (DOMAIN errors) \ (DOMAIN last'.data.errors) :
                      f \in DOMAIN errors' /\ errors'[f] = errors[f] ]_vars

(* C10 as stated: validate gives an error to exactly the blank or           *)
(* whitespace-only fields (no other field gets one), and nothing is         *)
(* submitted while a field is blank.                                        *)
C10_ErrorsExactlyBlankFields ==
    /\ last.op = "invalid" => DOMAIN errors = BlankFields(formData)
    /\ last.op = "post" => BlankFields(formData) = {}

(* C10 amended: validate gives an error to every blank or whitespace-only   *)
(* field; name and message get one only when blank, email also when it is   *)
(* not blank and fails the pattern; nothing is submitted while a field is   *)
(* blank.                                                                   *)
C10_ErrorsForBlankFields ==
    /\ last.op = "invalid"
         => /\ \A f \in BlankFields(formData) : truthy(errors, f)
            /\ \A f \in (DOMAIN errors) \ BlankFields(formData) :
                   f = "email" /\ ~emailRegexTest(formData.email)
    /\ last.op = "post" => BlankFields(formData) = {}
    /\ BlankFields(formData) # {} => calls = <<>>

C10_Witness ==
    /\ last.op = "invalid"
    /\ formData.name = <<" ">>
    /\ formData.email = <<"a", "@", "a">>
    /\ formData.message = <<"a">>
    /\ DOMAIN errors = {"name", "email"}

(* C11: validate's email entry is "Email is required" for a blank or        *)
(* whitespace-only email, "Please enter a valid email" for a non-blank one  *)
(* in which the pattern <non-whitespace>@<non-whitespace>.<non-whitespace>  *)
(* is not found, and absent otherwise; name and message get "Name is        *)
(* required" / "Message is required" exactly when blank.                    *)
C11_ErrorTexts ==
    /\ last.op = "invalid" => errors = ExpectedErrors(formData)
    /\ last.op = "post" => ExpectedErrors(formData) = EmptyMap

C11_Witness ==
    /\ last.op = "invalid"
    /\ formData.name = <<"a">>
    /\ formData.email = <<"a", "@", ".", "a">>
    /\ formData.message = <<" ">>
    /\ errors = [email |-> EmailInvalid, message |-> MessageRequired]

(* C12: an edit of one field sets the result to none and clears that        *)
(* field's error, and leaves every other field's error, the other draft     *)
(* fields, isSubmitting and the requests in flight unchanged.               *)
C12_EditFrame ==
    [][ last'.op = "edit"
            => LET f == last'.field
               IN  /\ response' = Null
                   /\ ~truthy(errors', f)
                   /\ \A g \in Fields \ {f} :
                        /\ g \in DOMAIN errors' <=> g \in DOMAIN errors
                        /\ g \in DOMAIN errors => errors'[g] = errors[g]
                        /\ formData'[g] = formData[g]
                   /\ isSubmitting' = isSubmitting
                   /\ calls' = calls ]_vars

C12_Witness ==
    /\ last.op = "edit"
    /\ last.field = "name"
    /\ "name" \in DOMAIN errors
    /\ errors["name"] = <<>>
    /\ truthy(errors, "email")
    /\ response = Null

(* C19: every payload POSTed has name, email and message non-blank, and its *)
(* email as a whole has the shape local@domain, with no whitespace or other *)
(* text around it.                                                          *)
C19_PayloadWellFormed ==
    \A i \in 1..Len(calls) :
        /\ BlankFields(calls[i].payload) = {}
        /\ HasEmailShape(calls[i].payload.email)

(* C20: whenever isSubmitting is true, no result is stored in the banner    *)
(* state.                                                                   *)
C20_NoBannerWhileSubmitting == isSubmitting => response = Null

----------------------------------------------------------------------------
(* Vocabulary of the claims about the contacts page *)

\* a and b are the same character up to letter case
SameLetter(a, b) ==
    \/ a = b
    \/ \E k \in 1..Len(UpperCase) : {a, b} = {UpperCase[k], LowerCase[k]}

\* t is found in s, compared case-insensitively
ContainsCI(s, t) ==
    \E i \in 0..(Len(s) - Len(t)) : \A k \in 1..Len(t) : SameLetter(s[i + k], t[k])

MatchesCI(contact, term) ==
    \E field \in {"name", "email", "message"} : ContainsCI(contact[field], term)

\* r holds exactly the contacts of list that match term, in the order of list
IsFilterOf(r, list, term) ==
    LET M == {i \in 1..Len(list) : MatchesCI(list[i], term)}
        kth(k) == CHOOSE i \in M : Cardinality({j \in M : j <= i}) = k
    IN  /\ Len(r) = Cardinality(M)
        /\ \A k \in 1..Len(r) : r[k] = list[kth(k)]

(* C13: when fetchContacts receives a non-2xx status, the error state       *)
(* becomes "Failed to fetch contacts" and the held list is what it was      *)
(* before the call.                                                         *)
C13_FailureKeepsList ==
    [][ (last'.op = "loadFailed" /\ last'.cause = "status")
            => /\ fetchError' = Text(FailedToFetchContacts)
               /\ contacts' = contacts
               /\ filteredContacts' = filteredContacts ]_vars

C13_Witness ==
    /\ last.op = "loadFailed"
    /\ last.cause = "status"
    /\ last.status = 500
    /\ contacts = <<Ann, Bob>>
    /\ fetchError = Text(FailedToFetchContacts)

(* C14: when fetchContacts succeeds, the held list becomes exactly the      *)
(* parsed response and the error state becomes none, also after a failed    *)
(* fetch.                                                                   *)
C14_SuccessReplacesList ==
    [][ last'.op = "loaded"
            => /\ contacts' = last'.data
               /\ fetchError' = Null ]_vars

C14_Witness ==
    /\ last.op = "loaded"
    /\ last.prevError = Text(FailedToFetchContacts)
    /\ last.data = <<Bob, Ann>>
    /\ contacts = <<Bob, Ann>>
    /\ fetchError = Null

(* C15: at most one of "loading is true" and "an error is present" holds,   *)
(* and the results are displayed only when neither holds.                   *)
C15_TriState ==
    /\ ~(showsSpinner /\ showsErrorAlert)
    /\ showsGrid => (~loading /\ fetchError = Null)

(* C16: at most one GET is in flight; fetchContacts starts only at mount    *)
(* and by Refresh, Refresh is refused while loading, loading is true while  *)
(* a fetch is outstanding and is false again when the fetch has resolved.   *)
C16_OneGetAtATime ==
    [][ /\ Len(gets') <= 1
        /\ gets' # <<>> => loading'
        /\ Len(gets') > Len(gets) => last'.op \in {"mounted", "refresh"}
        /\ (Len(gets') > Len(gets) /\ last'.op = "refresh") => ~loading
        /\ Len(gets') < Len(gets) => ~loading' ]_vars

C16_Witness ==
    /\ last.op = "refresh"
    /\ Len(gets) = 1
    /\ loading
    /\ contacts # <<>>

(* C17: the filter returns exactly the contacts whose name, email or        *)
(* message contains the term compared case-insensitively, in the order of   *)
(* the list; the empty term returns the list; the list is not modified.     *)
C17_FilterResult ==
    [][ last'.op \in {"mounted", "filtered"}
            => /\ IsFilterOf(filteredContacts', contacts, searchTerm)
               /\ searchTerm = <<>> => filteredContacts' = contacts
               /\ contacts' = contacts ]_vars

C17_Witness ==
    /\ last.op = "filtered"
    /\ contacts = <<Ann, Bob>>
    /\ searchTerm = <<"a", "n", "n">>
    /\ filteredContacts = <<Ann, Bob>>

(* C18: when not loading, "No contacts match your search" is rendered only  *)
(* with a non-empty search term and a non-empty list without a match, "No   *)
(* contacts found" only with an empty list, and neither with an empty       *)
(* search term and a non-empty list.                                        *)
C18_EmptyStateTexts ==
    ~loading =>
        /\ emptyStateText = NoContactsMatch
              => /\ searchTerm # <<>>
                 /\ contacts # <<>>
                 /\ \A i \in 1..Len(contacts) : ~MatchesCI(contacts[i], searchTerm)
        /\ emptyStateText = NoContactsFound => contacts = <<>>
        /\ (searchTerm = <<>> /\ contacts # <<>>) => emptyStateText = <<>>

----------------------------------------------------------------------------
(* The abort timer of an attempt that is over *)

\* invocation i has produced its result and its timer was never cancelled
TimerLeftBehind(i) == calls[i].phase = "done" /\ calls[i].timer = "armed"

\* this step is the firing of the timer some finished invocation left behind
LateFiring ==
    \E i \in 1..Len(calls) : TimerLeftBehind(i) /\ calls' = RemoveAt(calls, i)

\* C21: the abort timer never acts on anything once its attempt has produced
\* its result.  From the moment the response arrives the timer is cancelled
\* (an invocation reading a body has no timer left); and the firing of a
\* timer left behind by an attempt that failed before any response changes
\* neither the result shown, the draft, the errors nor isSubmitting, and
\* leaves every other attempt, a later one included, exactly as it was.
C21_LateTimerHarmless ==
    [][ /\ \A i \in 1..Len(calls') :
              calls'[i].phase \notin {"fetch", "done"} => calls'[i].timer = "cleared"
        /\ last'.op = "lateTimer" => LateFiring
        /\ LateFiring => /\ response' = response
                         /\ formData' = formData
                         /\ errors' = errors
                         /\ isSubmitting' = isSubmitting ]_vars

\* a failed attempt was followed by a new one; the first attempt's timer has
\* just fired and the new request is still awaited
C21_Witness ==
    /\ last.op = "lateTimer"
    /\ Len(calls) = 1
    /\ calls[1].phase = "fetch"
    /\ calls[1].timer = "armed"
    /\ isSubmitting
    /\ response = Null

----------------------------------------------------------------------------
(* The Formspree revision: what an answer of the relay ends the attempt with *)

\* this step ends an attempt whose request was answered, the body having been read
AnswerSettled == last'.op = "settled" /\ last'.outcome = "answer"

\* C22: in the Formspree revision every 2xx answer ends the attempt with the
\* success result ("Thank you for your message! We'll get back to you soon.")
\* and the draft reset to empty fields, whatever the body of the answer is;
\* every non-2xx answer ends it with a success: false result and the draft
\* as it was.
C22_FormspreeResultByStatus ==
    [][ AnswerSettled =>
            IF ok(last'.status)
            THEN /\ response' = [success |-> TRUE, message |-> ThankYouMessage]
                 /\ formData' = EmptyForm
            ELSE /\ response' # Null
                 /\ ~response'.success
                 /\ formData' = formData ]_vars

====
